---- MODULE Spec2Model ----
(***************************************************************************)
(* Model of the /analyze request handler of app.py (Flask analytics        *)
(* microservice).  One request is handled at a time from `pc = "idle"` to  *)
(* `pc = "done"`; every action is one block of the handler.                *)
(*                                                                         *)
(* Text is modelled as a sequence of character classes.  In CSV text a     *)
(* symbol is one separator character or a run of characters without        *)
(* separators; in upstream (model output) text a symbol is a brace or a    *)
(* brace-free run of characters.                                           *)
(***************************************************************************)
EXTENDS Integers, Sequences, FiniteSets, TLC

VARIABLES
    apiKey,       \* OPENAI_API_KEY is non-empty
    debugErrors,  \* DEBUG_ERRORS
    pc,           \* position of the handler
    req,          \* the HTTP request body
    today,        \* the date read by time.strftime
    data,         \* local `data`
    csv_text,     \* local `csv_text`
    schema,       \* local `schema`
    dryrun,       \* local `dryrun`
    run_label,    \* local `run_label`
    lines,        \* local `lines`
    hdr,          \* local `hdr`
    items,        \* local `items`
    prompt,       \* local `prompt`
    resp,         \* local `resp`
    text,         \* local `text`
    parsed,       \* local `parsed`
    exc,          \* the exception in flight
    response,     \* the response returned by the handler
    calls,        \* provider invocations made for the current request
    sent          \* responses returned for the current request

vars == <<apiKey, debugErrors, pc, req, today, data, csv_text, schema, dryrun,
          run_label, lines, hdr, items, prompt, resp, text, parsed, exc, response,
          calls, sent>>

dryLocals == <<lines, hdr, items>>
locals == <<data, csv_text, schema, dryrun, run_label, dryLocals, prompt, resp, text, parsed>>

-----------------------------------------------------------------------------
(* Bounds *)

MaxCsvLen == 5
MaxTextLen == 4

-----------------------------------------------------------------------------
(* JSON / Python values *)

Absent == [t |-> "absent"]            \* a missing key; data.get gives None
JNull == [t |-> "null"]
JBool(b) == [t |-> "bool", v |-> b]
JNum(n) == [t |-> "num", v |-> n]
JStr(s) == [t |-> "str", v |-> s]     \* a string taken as a whole
JText(s) == [t |-> "text", v |-> s]   \* a string as a sequence of symbols
JList(s) == [t |-> "list", v |-> s]
JDict(c, s, r, d) == [t |-> "dict", csv |-> c, schema |-> s, run_label |-> r, dryrun |-> d]
EmptyDict == JDict(Absent, Absent, Absent, Absent)

\* Python truth value of a JSON value (None, False, 0, "", [], {} are falsy).
Truthy(v) ==
    CASE v.t = "absent" -> FALSE
      [] v.t = "null" -> FALSE
      [] v.t = "bool" -> v.v
      [] v.t = "num" -> v.v # 0
      [] v.t = "str" -> v.v # ""
      [] v.t = "text" -> Len(v.v) > 0
      [] v.t = "list" -> Len(v.v) > 0
      [] v.t = "dict" -> v # EmptyDict

Exception(kind, msg) == [kind |-> kind, msg |-> msg]
NoException == Exception("", "")

\* The classes `except Exception` catches: every exception the handler or the
\* provider client can raise derives from Exception.
ExceptionClasses ==
    {"AttributeError", "TypeError", "ValueError", "JSONDecodeError",
     "AuthenticationError", "APIConnectionError"}

SetMin(S) == CHOOSE x \in S : \A y \in S : x <= y
SetMax(S) == CHOOSE x \in S : \A y \in S : x >= y
SeqsUpTo(S, n) == UNION {[1..k -> S] : k \in 0..n}

-----------------------------------------------------------------------------
(* String operations on CSV text *)

SP == " "
NL == "\n"
COMMA == ","
USERID == "userid"

IsSpace(c) == c \in {SP, NL}

\* str.strip()
Strip(s) ==
    LET idx == {i \in 1..Len(s) : ~IsSpace(s[i])}
    IN IF idx = {} THEN <<>> ELSE SubSeq(s, SetMin(idx), SetMax(idx))

\* str.split(sep): k separators give k+1 pieces, empty pieces included
SplitOn(s, sep) ==
    LET cuts == {i \in 1..Len(s) : s[i] = sep}
        n == Cardinality(cuts)
        cut(k) == IF k = 0 THEN 0
                  ELSE IF k = n + 1 THEN Len(s) + 1
                  ELSE CHOOSE i \in cuts : Cardinality({j \in cuts : j <= i}) = k
    IN [k \in 1..(n + 1) |-> SubSeq(s, cut(k - 1) + 1, cut(k) - 1)]

\* str.splitlines(): as split on the line break, without a final empty piece
SplitLines(s) ==
    LET pieces == SplitOn(s, NL)
    IN IF pieces[Len(pieces)] = <<>> THEN SubSeq(pieces, 1, Len(pieces) - 1) ELSE pieces

NotBlank(ln) == Strip(ln) # <<>>

\* [ln for ln in csv_text.splitlines() if ln.strip()]
NonEmptyLines(s) == SelectSeq(SplitLines(s), NotBlank)

\* dict(zip(hdr, cols)): zipped to the shorter length, a repeated key keeps its last value
ZipDict(names, cols) ==
    LET n == IF Len(names) < Len(cols) THEN Len(names) ELSE Len(cols)
        keys == {names[i] : i \in 1..n}
    IN [k \in keys |-> cols[SetMax({i \in 1..n : names[i] = k})]]

DigitVal(c) == IF c = "1" THEN 1 ELSE 0
IsDigit(c) == c \in {"0", "1"}

RECURSIVE Decimal(_)
Decimal(s) == IF s = <<>> THEN 0
              ELSE 10 * Decimal(SubSeq(s, 1, Len(s) - 1)) + DigitVal(s[Len(s)])

\* int(str): surrounding whitespace is ignored; anything but digits raises ValueError
ParseInt(s) ==
    LET d == Strip(s)
    IN IF d # <<>> /\ \A i \in 1..Len(d) : IsDigit(d[i])
       THEN [ok |-> TRUE, v |-> Decimal(d)]
       ELSE [ok |-> FALSE, v |-> 0]

\* int(rec.get("userid", "0") or 0)
Uid(rec) ==
    LET field == IF <<USERID>> \in DOMAIN rec THEN rec[<<USERID>>] ELSE <<"0">>
    IN IF field = <<>> THEN [ok |-> TRUE, v |-> 0] ELSE ParseInt(field)

Item(uid, rec) ==
    [userid |-> uid, risk_score |-> "50.0", confidence |-> "0.4",
     drivers |-> <<"dry-run mode">>, student_msg |-> "Dry-run preview.",
     teacher_msg |-> "Dry-run: Verify Moodle <-> Analytics link.", features |-> rec]

-----------------------------------------------------------------------------
(* Request defaults *)

DefaultSchema ==
    JList(<<JStr("userid"), JStr("username"), JStr("quizname"), JStr("difficultysum"),
            JStr("standarderror"), JStr("measure"), JStr("timetaken")>>)

Pad2(n) == IF n < 10 THEN "0" \o ToString(n) ELSE ToString(n)

\* time.strftime('%Y-%m-%d')
Strftime(d) == ToString(d.y) \o "-" \o Pad2(d.m) \o "-" \o Pad2(d.d)

\* f"manual_{time.strftime('%Y-%m-%d')}"
DefaultRunLabel(d) == JStr("manual_" \o Strftime(d))

Dates == {[y |-> 2025, m |-> 10, d |-> 24], [y |-> 2026, m |-> 1, d |-> 5]}

\* Mutant of CsvText: the csv field is used as sent, not trimmed.
CsvTextRaw(v) == IF Truthy(v) THEN v.v ELSE <<>>

\* (data.get("csv") or "").strip()
CsvText(v) == IF Truthy(v) THEN Strip(v.v) ELSE <<>>

\* Mutant of IsDryRun: a missing credential no longer selects dry-run mode.
FlagOnly(flag, key) == flag

\* dryrun or not OPENAI_API_KEY
IsDryRun(flag, key) == flag \/ ~key

RECURSIVE JoinStr(_)
JoinStr(s) == IF Len(s) = 0 THEN ""
              ELSE IF Len(s) = 1 THEN s[1].v
              ELSE s[1].v \o ", " \o JoinStr(Tail(s))

\* ", ".join(schema): a TypeError unless schema is a sequence of strings
Joinable(s) == s.t = "list" /\ \A i \in 1..Len(s.v) : s.v[i].t = "str"

-----------------------------------------------------------------------------
(* Upstream text and json.loads *)

\* Symbols of upstream text: the two braces, "x" a brace-free run that is not
\* JSON, "A" a complete JSON value that is not an object (such as [1]), and the
\* member lists "I" ("items": [...]), "N" ("items": null), "R" ("run_label": "...").
TextSymbols == {"{", "}", "x", "A", "I", "N", "R"}
MemberSymbols == {"I", "N", "R"}

UpstreamLabel == JStr("upstream")
UpstreamItems == JList(<<JStr("upstream item")>>)

PDict(r, i) == [t |-> "dict", run_label |-> r, items |-> i]

MemberDict(m) ==
    CASE m = "I" -> PDict(Absent, UpstreamItems)
      [] m = "N" -> PDict(Absent, JNull)
      [] m = "R" -> PDict(UpstreamLabel, Absent)

\* json.loads(s) for a str s: the value, or ok = FALSE for JSONDecodeError
Loads(s) ==
    IF s = <<"A">> THEN [ok |-> TRUE, value |-> JList(<<JNum(1)>>)]
    ELSE IF s = <<"{", "}">> THEN [ok |-> TRUE, value |-> PDict(Absent, Absent)]
    ELSE IF Len(s) = 3 /\ s[1] = "{" /\ s[2] \in MemberSymbols /\ s[3] = "}"
         THEN [ok |-> TRUE, value |-> MemberDict(s[2])]
    ELSE [ok |-> FALSE, value |-> JNull]

\* str.find(c): 0-based index of the first c, -1 when there is none
Find(s, c) ==
    LET idx == {i \in 1..Len(s) : s[i] = c}
    IN IF idx = {} THEN -1 ELSE SetMin(idx) - 1

\* str.rfind(c): 0-based index of the last c, -1 when there is none
RFind(s, c) ==
    LET idx == {i \in 1..Len(s) : s[i] = c}
    IN IF idx = {} THEN -1 ELSE SetMax(idx) - 1

\* Mutant of Slice: the end index is taken as inclusive.
SliceShort(s, a, b) == SubSeq(s, a + 1, b - 1)

\* s[a:b] for 0 <= a, 0 <= b
Slice(s, a, b) == SubSeq(s, a + 1, b)

\* Lines 118-126: parse directly, else the span from the first { to the last }
ParseUpstream(s) ==
    IF s.t # "text"
    THEN [ok |-> FALSE, value |-> JNull,
          exc |-> Exception("AttributeError", "'NoneType' object has no attribute 'find'")]
    ELSE IF Loads(s.v).ok
    THEN [ok |-> TRUE, value |-> Loads(s.v).value, exc |-> NoException]
    ELSE LET start == Find(s.v, "{")
             end == RFind(s.v, "}")
         IN IF start # -1 /\ end # -1
            THEN LET r == Loads(Slice(s.v, start, end + 1))
                 IN IF r.ok
                    THEN [ok |-> TRUE, value |-> r.value, exc |-> NoException]
                    ELSE [ok |-> FALSE, value |-> JNull,
                          exc |-> Exception("JSONDecodeError", "Expecting value")]
            ELSE [ok |-> FALSE, value |-> JNull,
                  exc |-> Exception("ValueError", "Invalid JSON returned from model")]

\* Mutant of SetDefault: the request's label always replaces the upstream one.
AlwaysSet(p, label) == [p EXCEPT !.run_label = label]

\* parsed.setdefault("run_label", run_label)
SetDefault(p, label) ==
    IF p.run_label = Absent THEN [p EXCEPT !.run_label = label] ELSE p

\* Mutant of CoerceItems: items is passed on as parsed.
NoCoerce(p) == p

\* if not isinstance(parsed.get("items"), list): parsed["items"] = []
CoerceItems(p) ==
    IF p.items.t = "list" THEN p ELSE [p EXCEPT !.items = JList(<<>>)]

-----------------------------------------------------------------------------
(* Responses *)

Body(error, trace, label, list) ==
    [error |-> error, trace |-> trace, run_label |-> label, items |-> list]

Response(status, body) == [status |-> status, body |-> body]
NoResponse == Response(0, Body(Absent, Absent, Absent, Absent))

\* jsonify({"error": "Missing CSV data"}), 400
MissingCsv == Response(400, Body(JStr("Missing CSV data"), Absent, Absent, Absent))

\* jsonify({"run_label": ..., "items": ...})
Ok(label, list) == Response(200, Body(Absent, Absent, label, list))

\* traceback.format_exc()
FormatExc(e) == JStr("Traceback (most recent call last): " \o e.kind)

\* Mutant of ErrorResponse: the trace is sent whatever DEBUG_ERRORS says.
AlwaysTrace(e, debug) ==
    Response(500, Body(JStr(e.kind \o ": " \o e.msg), FormatExc(e), Absent, Absent))

\* Lines 137-140: the error envelope, with the trace when DEBUG_ERRORS
ErrorResponse(e, debug) ==
    Response(500, Body(JStr(e.kind \o ": " \o e.msg),
                       IF debug THEN FormatExc(e) ELSE Absent, Absent, Absent))

\* Mutant of Caught: the clause catches ValueError alone.
CaughtValueError(e) == e.kind = "ValueError"

\* except Exception as e
Caught(e) == e.kind \in ExceptionClasses

-----------------------------------------------------------------------------
(* The inputs *)

CsvSymbols == {SP, NL, COMMA, USERID, "1", "x"}
AllCsv == SeqsUpTo(CsvSymbols, MaxCsvLen)
AllTexts == SeqsUpTo(TextSymbols, MaxTextLen)

SampleCsv ==
    {<<>>, <<SP>>, <<NL, SP>>, <<USERID>>, <<USERID, NL, "1">>, <<USERID, NL, "x">>,
     <<SP, USERID, COMMA, "x", NL, "1", "1", COMMA, "x", NL>>,
     <<USERID, NL, NL, SP, "1", NL, COMMA>>}

SampleTexts ==
    {<<>>, <<"{", "I", "}">>, <<"{", "R", "}">>, <<"x", "{", "N", "}", "x">>,
     <<"A">>, <<"x">>, <<"}", "{">>}

CsvValues(texts) == {Absent, JNull, JNum(0), JNum(5)} \cup {JText(c) : c \in texts}
SchemaValues ==
    {Absent, JList(<<>>), JList(<<JStr("userid"), JStr("measure")>>),
     JList(<<JNum(1)>>), JNum(5)}
LabelValues == {Absent, JStr(""), JStr("exam_A"), JStr("manual_2025-10-24")}
DryrunValues == {Absent, JBool(TRUE), JBool(FALSE), JStr("false")}

\* The body of a request: none, bytes that are not JSON, or a JSON value.
NoBody == [kind |-> "missing", value |-> Absent]
NotJson == [kind |-> "notjson", value |-> Absent]
JsonBody(v) == [kind |-> "json", value |-> v]

NonObjectValues == {JNull, JNum(0), JList(<<>>), JList(<<JNum(1)>>), JStr("abc")}

Objects(csvs, schemas, labels, flags) ==
    {JDict(c, s, r, d) : c \in csvs, s \in schemas, r \in labels, d \in flags}

RequestBodies ==
    {NoBody, NotJson} \cup {JsonBody(v) : v \in NonObjectValues}
    \cup {JsonBody(o) : o \in Objects(CsvValues(SampleCsv), SchemaValues, LabelValues, DryrunValues)}

CsvBodies ==
    {NoBody}
    \cup {JsonBody(o) : o \in Objects({JText(c) : c \in AllCsv}, {Absent}, {Absent}, {JBool(TRUE)})}
    \cup {JsonBody(o) : o \in Objects({JText(<<USERID, NL, "1">>)}, {Absent, JNum(5)},
                                      {JStr("exam_A")}, {Absent})}

LiveBodies ==
    {NoBody}
    \cup {JsonBody(o) : o \in Objects({JText(<<USERID, NL, "1">>)},
                                      {Absent, JNum(5)}, {Absent, JStr("exam_A")},
                                      {Absent, JBool(TRUE)})}

\* What client.responses.create can do: raise, or return a response that holds
\* its text in output[0].content[0].text ("structured"), only in output_text
\* ("flat"), in neither ("empty"), or holds None as its text ("none").
Outcome(kind, body, error) == [kind |-> kind, text |-> body, error |-> error]
NoOutcome == Outcome("", JNull, NoException)

ProviderErrors ==
    {Exception("AuthenticationError", "Incorrect API key provided"),
     Exception("APIConnectionError", "Connection error.")}

Outcomes(texts) ==
    {Outcome("raise", JNull, e) : e \in ProviderErrors}
    \cup {Outcome(k, JText(b), NoException) : k \in {"structured", "flat"}, b \in texts}
    \cup {Outcome("empty", JNull, NoException), Outcome("none", JNull, NoException)}

-----------------------------------------------------------------------------
(* The handler *)

Init ==
    /\ apiKey \in BOOLEAN
    /\ debugErrors \in BOOLEAN
    /\ pc = "idle"
    /\ req = NoBody
    /\ today = CHOOSE d \in Dates : TRUE
    /\ data = JNull
    /\ csv_text = <<>>
    /\ schema = JNull
    /\ dryrun = FALSE
    /\ run_label = JNull
    /\ lines = <<>>
    /\ hdr = <<>>
    /\ items = <<>>
    /\ prompt = JNull
    /\ resp = NoOutcome
    /\ text = JNull
    /\ parsed = JNull
    /\ exc = NoException
    /\ response = NoResponse
    /\ calls = 0
    /\ sent = 0

\* A POST /analyze request arrives (lines 29-30).
Receive(bodies) ==
    /\ pc = "idle"
    /\ \E b \in bodies : req' = b
    /\ pc' = "get_json"
    /\ UNCHANGED <<apiKey, debugErrors, today, locals, exc, response, calls, sent>>

\* The handler has returned: Flask sends the response and the locals are gone.
Finish ==
    /\ pc = "done"
    /\ pc' = "idle"
    /\ req' = NoBody
    /\ today' = CHOOSE d \in Dates : TRUE
    /\ data' = JNull
    /\ csv_text' = <<>>
    /\ schema' = JNull
    /\ dryrun' = FALSE
    /\ run_label' = JNull
    /\ lines' = <<>>
    /\ hdr' = <<>>
    /\ items' = <<>>
    /\ prompt' = JNull
    /\ resp' = NoOutcome
    /\ text' = JNull
    /\ parsed' = JNull
    /\ exc' = NoException
    /\ response' = NoResponse
    /\ calls' = 0
    /\ sent' = 0
    /\ UNCHANGED <<apiKey, debugErrors>>

\* request.get_json(force=True, silent=True): None for a missing or non-JSON body
RequestJson(r) == IF r.kind = "json" THEN r.value ELSE JNull

\* Line 42: data = request.get_json(force=True, silent=True) or {}
GetJson ==
    /\ pc = "get_json"
    /\ data' = IF Truthy(RequestJson(req)) THEN RequestJson(req) ELSE EmptyDict
    /\ pc' = "fields"
    /\ UNCHANGED <<apiKey, debugErrors, req, today, csv_text, schema, dryrun, run_label,
                   dryLocals, prompt, resp, text, parsed, exc, response, calls, sent>>

Raise(e) ==
    /\ exc' = e
    /\ pc' = "except"

\* Lines 43-46: the fields of the payload, with their defaults
ExtractFields ==
    /\ pc = "fields"
    /\ IF data.t # "dict"
       THEN /\ Raise(Exception("AttributeError", "object has no attribute 'get'"))
            /\ UNCHANGED <<csv_text, schema, dryrun, run_label, today>>
       ELSE IF Truthy(data.csv) /\ data.csv.t # "text"
       THEN /\ Raise(Exception("AttributeError", "object has no attribute 'strip'"))
            /\ UNCHANGED <<csv_text, schema, dryrun, run_label, today>>
       ELSE /\ csv_text' = CsvText(data.csv)
            /\ schema' = IF Truthy(data.schema) THEN data.schema ELSE DefaultSchema
            /\ dryrun' = Truthy(data.dryrun)
            /\ IF Truthy(data.run_label)
               THEN run_label' = data.run_label /\ UNCHANGED today
               ELSE \E d \in Dates : today' = d /\ run_label' = DefaultRunLabel(d)
            /\ pc' = "validate"
            /\ UNCHANGED exc
    /\ UNCHANGED <<apiKey, debugErrors, req, data, dryLocals, prompt, resp, text, parsed,
                   response, calls, sent>>

Return(r) ==
    /\ response' = r
    /\ sent' = sent + 1
    /\ pc' = "done"

\* Lines 49-50: validation
Validate ==
    /\ pc = "validate"
    /\ IF csv_text = <<>>
       THEN Return(MissingCsv)
       ELSE pc' = "mode" /\ UNCHANGED <<response, sent>>
    /\ UNCHANGED <<apiKey, debugErrors, req, today, locals, exc, calls>>

\* Lines 53-56: dry-run mode is chosen; the non-empty lines and the header
DryRunStart ==
    /\ pc = "mode"
    /\ IsDryRun(dryrun, apiKey)
    /\ LET l == NonEmptyLines(csv_text)
       IN /\ lines' = l
          /\ hdr' = IF Len(l) > 0 THEN SplitOn(l[1], COMMA) ELSE <<>>
    /\ items' = <<>>
    /\ pc' = "rows"
    /\ UNCHANGED <<apiKey, debugErrors, req, today, data, csv_text, schema, dryrun,
                   run_label, prompt, resp, text, parsed, exc, response, calls, sent>>

\* Lines 57-69: one pass of the loop over lines[1:]
DryRunRow ==
    /\ pc = "rows"
    /\ Len(items) < Len(lines) - 1
    /\ \E cols \in {SplitOn(lines[Len(items) + 2], COMMA)} :
       \E rec \in {ZipDict(hdr, cols)} :
       \E uid \in {Uid(rec)} :
          IF uid.ok
          THEN /\ items' = Append(items, Item(uid.v, rec))
               /\ UNCHANGED <<pc, exc>>
          ELSE /\ Raise(Exception("ValueError", "invalid literal for int() with base 10"))
               /\ UNCHANGED items
    /\ UNCHANGED <<apiKey, debugErrors, req, today, data, csv_text, schema, dryrun,
                   run_label, lines, hdr, prompt, resp, text, parsed, response, calls, sent>>

\* Line 70: the dry-run response
DryRunReturn ==
    /\ pc = "rows"
    /\ Len(items) >= Len(lines) - 1
    /\ Return(Ok(run_label, JList(items)))
    /\ UNCHANGED <<apiKey, debugErrors, req, today, locals, exc, calls>>

\* Lines 73-99: the prompt
BuildPrompt ==
    /\ pc = "mode"
    /\ ~IsDryRun(dryrun, apiKey)
    /\ IF Joinable(schema)
       THEN /\ prompt' = [columns |-> JoinStr(schema.v), run_label |-> run_label,
                          csv |-> csv_text]
            /\ pc' = "call"
            /\ UNCHANGED exc
       ELSE /\ Raise(Exception("TypeError", "can only join an iterable of str"))
            /\ UNCHANGED prompt
    /\ UNCHANGED <<apiKey, debugErrors, req, today, data, csv_text, schema, dryrun,
                   run_label, dryLocals, resp, text, parsed, response, calls, sent>>

\* Lines 102-109: client.responses.create(...)
CallProvider(outcomes) ==
    /\ pc = "call"
    /\ calls' = calls + 1
    /\ \E o \in outcomes :
          IF o.kind = "raise"
          THEN Raise(o.error) /\ UNCHANGED resp
          ELSE resp' = o /\ pc' = "extract" /\ UNCHANGED exc
    /\ UNCHANGED <<apiKey, debugErrors, req, today, data, csv_text, schema, dryrun,
                   run_label, dryLocals, prompt, text, parsed, response, sent>>

\* Lines 112-116: resp.output[0].content[0].text, else getattr(resp, "output_text", "")
ResponseText(r) ==
    CASE r.kind = "structured" -> r.text
      [] r.kind = "flat" -> r.text
      [] r.kind = "none" -> JNull
      [] OTHER -> JText(<<>>)

ExtractText ==
    /\ pc = "extract"
    /\ text' = ResponseText(resp)
    /\ pc' = "parse"
    /\ UNCHANGED <<apiKey, debugErrors, req, today, data, csv_text, schema, dryrun,
                   run_label, dryLocals, prompt, resp, parsed, exc, response, calls, sent>>

\* Lines 118-126: json.loads with the recovery
ParseJson ==
    /\ pc = "parse"
    /\ IF ParseUpstream(text).ok
       THEN parsed' = ParseUpstream(text).value /\ pc' = "post" /\ UNCHANGED exc
       ELSE Raise(ParseUpstream(text).exc) /\ UNCHANGED parsed
    /\ UNCHANGED <<apiKey, debugErrors, req, today, data, csv_text, schema, dryrun,
                   run_label, dryLocals, prompt, resp, text, response, calls, sent>>

\* Lines 128-132: post-processing and the 200 response
PostProcess ==
    /\ pc = "post"
    /\ IF parsed.t = "dict"
       THEN /\ parsed' = CoerceItems(SetDefault(parsed, run_label))
            /\ Return(Ok(parsed'.run_label, parsed'.items))
            /\ UNCHANGED exc
       ELSE /\ Raise(Exception("AttributeError", "object has no attribute 'setdefault'"))
            /\ UNCHANGED <<parsed, response, sent>>
    /\ UNCHANGED <<apiKey, debugErrors, req, today, data, csv_text, schema, dryrun,
                   run_label, dryLocals, prompt, resp, text, calls>>

\* Lines 134-140: the handler's except clause
HandleException ==
    /\ pc = "except"
    /\ IF Caught(exc)
       THEN Return(ErrorResponse(exc, debugErrors))
       ELSE pc' = "escaped" /\ UNCHANGED <<response, sent>>
    /\ UNCHANGED <<apiKey, debugErrors, req, today, locals, exc, calls>>

Step ==
    \/ GetJson
    \/ ExtractFields
    \/ Validate
    \/ DryRunStart
    \/ DryRunRow
    \/ DryRunReturn
    \/ BuildPrompt
    \/ ExtractText
    \/ ParseJson
    \/ PostProcess
    \/ HandleException
    \/ Finish

ReceiveAny == Receive(RequestBodies)
ReceiveCsv == Receive(CsvBodies)
ReceiveLive == Receive(LiveBodies)
CallSample == CallProvider(Outcomes(SampleTexts))
CallAll == CallProvider(Outcomes(AllTexts))

Next == ReceiveAny \/ Step \/ CallSample
NextDry == ReceiveCsv \/ Step \/ CallSample
NextLive == ReceiveLive \/ Step \/ CallAll

\* Every kind of request, with sample CSV and sample upstream text.
Spec == Init /\ [][Next]_vars

\* The same, the handler running to completion once a request has arrived.
FairSpec == Spec /\ WF_vars(Step \/ CallSample)

\* Dry-run requests over every CSV text of the bound.
SpecDry == Init /\ [][NextDry]_vars

\* Live requests over every upstream text of the bound.
SpecLive == Init /\ [][NextLive]_vars

-----------------------------------------------------------------------------
(* Properties *)

Done == pc = "done"
IsObject == req.kind = "json" /\ req.value.t = "dict"
AllSpace(s) == \A i \in 1..Len(s) : s[i] \in {SP, NL}
\* The request carries a csv string that is not empty once trimmed.
HasCsv == IsObject /\ req.value.csv.t = "text" /\ ~AllSpace(req.value.csv.v)
FlagFalsy == req.value.dryrun \in {Absent, JNull, JBool(FALSE)}
LabelSupplied == req.value.run_label \notin {Absent, JNull, JStr("")}
ExpectedDefault ==
    CASE today = [y |-> 2025, m |-> 10, d |-> 24] -> JStr("manual_2025-10-24")
      [] today = [y |-> 2026, m |-> 1, d |-> 5] -> JStr("manual_2026-01-05")
ExpectedLabel == IF LabelSupplied THEN req.value.run_label ELSE ExpectedDefault
\* The request ran in dry-run mode / in live mode (it passed validation).
RanDry == csv_text # <<>> /\ (dryrun \/ ~apiKey)
RanLive == csv_text # <<>> /\ ~dryrun /\ apiKey

\* C1: a request whose payload is an object with the csv field absent, empty or
\* all whitespace is answered 400 {"error": "Missing CSV data"}, whatever the
\* other fields and the credential.
C1_MissingCsvRejected ==
    (Done /\ IsObject
          /\ (req.value.csv = Absent \/ (req.value.csv.t = "text" /\ AllSpace(req.value.csv.v))))
    => response = MissingCsv

C1_Witness ==
    /\ Done /\ IsObject /\ apiKey
    /\ req.value.csv = JText(<<NL, SP>>)
    /\ req.value.dryrun = JBool(TRUE)
    /\ req.value.run_label = JStr("exam_A")
    /\ response = MissingCsv

\* C2: a dry-run request with non-empty CSV returns 200 with exactly (number of
\* non-empty lines - 1) items, in row order, each with risk_score 50.0 and
\* confidence 0.4.
C2_DryRunItemCount ==
    (Done /\ RanDry) =>
        /\ response.status = 200
        /\ LET rows == NonEmptyLines(csv_text)
               out == response.body.items.v
           IN /\ Len(out) = Len(rows) - 1
              /\ \A i \in 1..Len(out) :
                    /\ out[i].risk_score = "50.0"
                    /\ out[i].confidence = "0.4"
                    /\ out[i].features =
                         ZipDict(SplitOn(rows[1], COMMA), SplitOn(rows[i + 1], COMMA))

\* C3 as claimed: on every 200 response, in either mode, run_label is the
\* request's non-empty run_label, or "manual_" and today's date when none is given.
C3_RunLabelRoundTrip ==
    (Done /\ response.status = 200) => response.body.run_label = ExpectedLabel

\* The run_label key of the object parsed from the upstream text (Absent in dry-run).
UpstreamRunLabel == IF calls = 1 THEN ParseUpstream(text).value.run_label ELSE Absent

\* C3 amended: run_label round-trips on every 200 response of dry-run mode, and of
\* live mode when the object parsed from the upstream text has no run_label key;
\* when it has one, the response carries the upstream value.
C3_RunLabelUnlessUpstream ==
    (Done /\ response.status = 200) =>
        response.body.run_label =
            IF UpstreamRunLabel # Absent THEN UpstreamRunLabel ELSE ExpectedLabel

C3_Witness ==
    /\ Done /\ response.status = 200 /\ calls = 1
    /\ ~LabelSupplied
    /\ today = [y |-> 2026, m |-> 1, d |-> 5]
    /\ response.body.run_label = JStr("manual_2026-01-05")

\* C4: every 200 response carries items as a sequence; when the upstream object
\* omits items or holds a non-list there, the response has items = [].
C4_ItemsIsSequence ==
    (Done /\ response.status = 200) =>
        /\ response.body.items.t = "list"
        /\ (calls = 1 /\ ParseUpstream(text).value.items.t # "list")
              => response.body.items = JList(<<>>)

C4_Witness ==
    /\ Done /\ response.status = 200 /\ calls = 1
    /\ text = JText(<<"x", "{", "N", "}">>)
    /\ response.body.items = JList(<<>>)

\* The JSON objects of the upstream alphabet.
ObjectTexts == {<<"{", "}">>} \cup {<<"{", m, "}">> : m \in MemberSymbols}
NoBrace(s) == \A i \in 1..Len(s) : s[i] \notin {"{", "}"}
\* s is the object o wrapped in brace-free text on at least one side.
Wraps(s, o) ==
    /\ s # o
    /\ \E i \in 1..Len(s) :
          /\ i + Len(o) - 1 <= Len(s)
          /\ SubSeq(s, i, i + Len(o) - 1) = o
          /\ NoBrace(SubSeq(s, 1, i - 1))
          /\ NoBrace(SubSeq(s, i + Len(o), Len(s)))

\* C5: in live mode, upstream text that wraps one JSON object in brace-free
\* text is recovered to that object and answered 200; text without "{" or
\* without "}" is answered 500.
C5_JsonRecovery ==
    (Done /\ calls = 1 /\ text.t = "text") =>
        /\ \A o \in ObjectTexts :
              Wraps(text.v, o) =>
                 /\ response.status = 200
                 /\ response.body.items = (IF o[2] = "I" THEN UpstreamItems ELSE JList(<<>>))
                 /\ response.body.run_label = (IF o[2] = "R" THEN UpstreamLabel ELSE run_label)
        /\ (\A i \in 1..Len(text.v) : text.v[i] # "{") => response.status = 500
        /\ (\A i \in 1..Len(text.v) : text.v[i] # "}") => response.status = 500

C5_Witness ==
    /\ Done /\ calls = 1
    /\ text = JText(<<"x", "{", "I", "}">>)
    /\ response.status = 200
    /\ response.body.items = UpstreamItems

SchemaJoins ==
    \/ req.value.schema \in {Absent, JNull, JList(<<>>)}
    \/ /\ req.value.schema.t = "list"
       /\ \A i \in 1..Len(req.value.schema.v) : req.value.schema.v[i].t = "str"

C7_ErrorEnvelope ==
    (Done /\ RanLive /\ exc # NoException) =>
        /\ response.status = 500
        /\ response.body.error = JStr(exc.kind \o ": " \o exc.msg)
        /\ response.body.trace # Absent <=> debugErrors

C7_Witness ==
    /\ Done /\ RanLive /\ ~debugErrors
    /\ exc.kind = "JSONDecodeError"
    /\ response.status = 500
    /\ response.body.trace = Absent

\* C8: in dry-run mode every data row yields an item whose userid is the integer
\* parse of its userid field, 0 when that field is absent, empty or unparseable;
\* the request never fails.
C8_UseridBestEffort ==
    (Done /\ RanDry) =>
        /\ response.status = 200
        /\ LET rows == NonEmptyLines(csv_text)
               out == response.body.items.v
               rec(i) == ZipDict(SplitOn(rows[1], COMMA), SplitOn(rows[i + 1], COMMA))
           IN \A i \in 1..Len(out) :
                 out[i].userid = (IF Uid(rec(i)).ok THEN Uid(rec(i)).v ELSE 0)

\* C9: a request whose body is missing, not JSON or not a JSON object is
\* answered 400 "Missing CSV data", never 500.
C9_MalformedBodyRejected ==
    (Done /\ ~IsObject) => response = MissingCsv

\* C10: every request ends with exactly one response, of status 200, 400 or
\* 500; no exception escapes the handler.
C10_AlwaysOneResponse ==
    (pc = "get_json") ~> (Done /\ sent = 1 /\ response.status \in {200, 400, 500})

C10_Witness ==
    /\ Done /\ sent = 1
    /\ exc.kind = "AuthenticationError"
    /\ response.status = 500

====
